---- MODULE Spec2Model ----
(***************************************************************************)
(* Command pattern with undo (src/5-singleton-pattern.ts, second half):    *)
(* devices (CeilingFan, Light, Stereo), their commands, MacroCommand and   *)
(* the invoker RemoteLoaderWithUndo.                                       *)
(*                                                                         *)
(* The specifications share the variables:                                 *)
(*   Spec        a client calls devices and leaf commands directly         *)
(*   SpecMacro   a client builds, executes and undoes a MacroCommand       *)
(*   SpecRemote  a client drives a RemoteLoaderWithUndo wired as in        *)
(*               RemoteLoader.main                                         *)
(*   SpecPizza   a client calls the pizza factories and stores             *)
(*   SpecWeather a client registers and removes displays on a WeatherData  *)
(*               and sets measurements (unnamed/part_004)                  *)
(*   SpecSingleton  clients call Singleton.getInstance()                   *)
(***************************************************************************)
EXTENDS Integers, Sequences, FiniteSets, TLC

(***************************************************************************)
(* Bounds                                                                  *)
(***************************************************************************)
\* longest child list handed to the MacroCommand constructor
MaxMacroLen == 2

\* most pizzas kept in the record of the pizzas handed out
MaxOrders == 2

\* largest slot number a client passes to the invoker: one past the first
\* index behind the constructor's slots, so that an assignment can leave a gap
MaxSlot == 8

\* longest observer list of a WeatherData
MaxObservers == 2

\* most calls of Singleton.getInstance
MaxGets == 6

(***************************************************************************)
(* CeilingFan speed constants and the invoker's slot count                 *)
(***************************************************************************)
HIGH == 3

MEDIUM == 2

LOW == 1

OFF == 0

Capacity == 7

Volume == 11

Speeds == {OFF, LOW, MEDIUM, HIGH}

(***************************************************************************)
(* Command objects: <<class name, instance number>>.  undefined is what    *)
(* reading an array index that was never assigned yields.                  *)
(***************************************************************************)
undefined == <<"undefined", 0>>

ceilingFanMedium == <<"CeilingFanMediumCommand", 0>>

ceilingFanHigh == <<"CeilingFanHighCommand", 0>>

ceilingFanLow == <<"CeilingFanLowCommand", 0>>

ceilingFanOff == <<"CeilingFanOffCommand", 0>>

livingRoomLightOff == <<"LightOffCommand", 0>>

stereoOnWithCD == <<"StereoOnWithCDCommand", 0>>

macroCommand == <<"MacroCommand", 0>>

NoCommand(n) == <<"NoCommand", n>>

FanCommands == {ceilingFanMedium, ceilingFanHigh, ceilingFanLow, ceilingFanOff}

LeafCommands == FanCommands \cup {livingRoomLightOff, stereoOnWithCD, NoCommand(0)}

VARIABLES
  speed,        \* CeilingFan.speed
  light,        \* Light: the transition it reported last ("on" / "off")
  stereo,       \* Stereo: the power transition it reported last
  prevSpeed,    \* prevSpeed field of each fan command object
  commands,     \* MacroCommand.commands
  onCommands,   \* RemoteLoaderWithUndo.onCommands  (index -> command)
  offCommands,  \* RemoteLoaderWithUndo.offCommands (index -> command)
  undoCommand,  \* RemoteLoaderWithUndo.undoCommand
  calls,        \* calls made during the last operation: <<caller, command, method>>
  reports,      \* console lines the devices wrote during the last operation
  err,          \* the last operation threw a TypeError
  lastOp,       \* history: the last operation [kind, cmd, slot]
  pre,          \* history: device state before the last operation
  rt,           \* history: device state before an execute that was undone at once
  everSet,      \* history: setCommand was called on the invoker
  everPushed,   \* history: an on/off button was pushed
  lastPushed,   \* history: the command the latest completed push executed
  scen,         \* history: progress through on(0), off(0), undo of RemoteLoader.main
  undos,        \* history: consecutive undo pushes so far (2 stands for 2 or more)
  stringBuff,   \* lines of the string the last toString() returned
  rebound,      \* history: what setCommand, called right after a completed
                \* push on the same slot, put in place of the pushed command
  lastOrder,    \* the last pizza call [who, op, type]
  pizza,        \* class of the pizza that call returned, "none" if it threw
  steps,        \* methods orderPizza called on the pizza, in order
  thrown,       \* message of the Error that call threw, "" if none
  served,       \* classes of the pizzas returned so far (at most MaxOrders)
  weatherData,  \* WeatherData: [observers, temperature, humidity, pressure]
  currentDisplay,    \* CurrentConditionsDisplay: [temperature, humidity, pressure]
  avgMaxMinDisplay,  \* AvgMaxMinDisplay: its four temperature fields
  updates,      \* update calls made during the last operation: <<observer, t, h, p>>
  weatherErr,   \* message of the Error the last operation threw, "" if none
  weatherOp,    \* the last WeatherData operation [kind, o, m]
  temps,        \* history: the temperatures avgMaxMinDisplay.update received
  beforeLast,   \* history: currentTemperature before the last update it received
  uniqueInstance,  \* Singleton.uniqueInstance: 0 for undefined, else the object
  constructed,  \* how often the constructor of Singleton ran
  refs,         \* what each client's last Singleton.getInstance() returned
  enumRefs,     \* what each client's last SingletonEnumClass.getInstance() returned
  first,        \* history: what the first Singleton.getInstance() returned
  gets          \* history: number of Singleton.getInstance() calls

commandVars == <<speed, light, stereo, prevSpeed, commands, onCommands,
                 offCommands, undoCommand, calls, reports, err, lastOp, pre,
                 rt, everSet, everPushed, lastPushed, scen, undos, stringBuff,
                 rebound>>

pizzaVars == <<lastOrder, pizza, steps, thrown, served>>

\* what the command pattern's operations never touch
weatherVars == <<weatherData, currentDisplay, avgMaxMinDisplay, updates,
                 weatherErr, weatherOp, temps, beforeLast>>

singletonVars == <<uniqueInstance, constructed, refs, enumRefs, first, gets>>

otherVars == <<pizzaVars, weatherVars, singletonVars>>

vars == <<commandVars, otherVars>>

remoteVars == <<onCommands, offCommands, undoCommand>>

(***************************************************************************)
(* The mutable objects a command can touch, threaded through the calls.    *)
(***************************************************************************)
Heap == [speed |-> speed, light |-> light, stereo |-> stereo,
         prevSpeed |-> prevSpeed, calls |-> <<>>, reports |-> <<>>]

Devices(h) == [speed |-> h.speed, light |-> h.light, stereo |-> h.stereo]

None == [speed |-> 0 - 1, light |-> "none", stereo |-> "none"]

(***************************************************************************)
(* CeilingFan                                                              *)
(***************************************************************************)
high(h) == [h EXCEPT !.speed = HIGH,
                     !.reports = Append(@, "ceiling fan is on high")]

medium(h) == [h EXCEPT !.speed = MEDIUM,
                       !.reports = Append(@, "ceiling fan is on medium")]

lowIfChanged(h) ==
  IF h.speed = LOW THEN h
  ELSE [h EXCEPT !.speed = LOW,
                 !.reports = Append(@, "ceiling fan is on low")]

low(h) == [h EXCEPT !.speed = LOW,
                    !.reports = Append(@, "ceiling fan is on low")]

off(h) == [h EXCEPT !.speed = OFF,
                    !.reports = Append(@, "ceiling fan is off")]

getSpeed(h) == h.speed

(***************************************************************************)
(* Light and Stereo keep no field: their state is the last report.         *)
(***************************************************************************)
LightOn(h) == [h EXCEPT !.light = "on", !.reports = Append(@, "light is on")]

LightOff(h) == [h EXCEPT !.light = "off", !.reports = Append(@, "light is off")]

StereoOn(h) == [h EXCEPT !.stereo = "on", !.reports = Append(@, "Stereo is on")]

StereoOff(h) == [h EXCEPT !.stereo = "off", !.reports = Append(@, "Stereo is off")]

StereoSetCD(h) == [h EXCEPT !.reports = Append(@, "Stereo is set for CD input")]

StereoSetVolume(h, volume) ==
  [h EXCEPT !.reports = Append(@, "Stereo volume set to " \o ToString(volume))]

(***************************************************************************)
(* Fan commands                                                            *)
(***************************************************************************)
NewCeilingFanCommandPrevSpeed(h) == getSpeed(h)

CeilingFanMediumExecuteNoSnapshot(c, h) == medium(h)

CeilingFanMediumExecute(c, h) ==
  medium([h EXCEPT !.prevSpeed[c] = getSpeed(h)])

CeilingFanHighExecute(c, h) ==
  high([h EXCEPT !.prevSpeed[c] = getSpeed(h)])

CeilingFanLowExecute(c, h) ==
  low([h EXCEPT !.prevSpeed[c] = getSpeed(h)])

CeilingFanOffExecuteSharedSnapshot(c, h) ==
  off([h EXCEPT !.prevSpeed = [d \in DOMAIN @ |-> getSpeed(h)]])

CeilingFanOffExecute(c, h) ==
  off([h EXCEPT !.prevSpeed[c] = getSpeed(h)])

CeilingFanUndoAlwaysOff(c, h) == off(h)

CeilingFanUndoSwapping(c, h) ==
  LET g == [h EXCEPT !.prevSpeed[c] = getSpeed(h)] IN
  IF h.prevSpeed[c] = HIGH THEN high(g)
  ELSE IF h.prevSpeed[c] = MEDIUM THEN medium(g)
  ELSE IF h.prevSpeed[c] = LOW THEN low(g)
  ELSE IF h.prevSpeed[c] = OFF THEN off(g)
  ELSE g

CeilingFanUndoNoOff(c, h) ==
  IF h.prevSpeed[c] = HIGH THEN high(h)
  ELSE IF h.prevSpeed[c] = MEDIUM THEN medium(h)
  ELSE IF h.prevSpeed[c] = LOW THEN low(h)
  ELSE h

CeilingFanUndo(c, h) ==
  IF h.prevSpeed[c] = HIGH THEN high(h)
  ELSE IF h.prevSpeed[c] = MEDIUM THEN medium(h)
  ELSE IF h.prevSpeed[c] = LOW THEN low(h)
  ELSE IF h.prevSpeed[c] = OFF THEN off(h)
  ELSE h

(***************************************************************************)
(* Binary-device commands and NoCommand                                    *)
(***************************************************************************)
LightOffCommandExecute(h) == LightOff(h)

LightOffCommandUndo(h) == LightOn(h)

StereoOnWithCDCommandExecute(h) == StereoSetVolume(StereoSetCD(StereoOn(h)), Volume)

StereoOnWithCDCommandUndo(h) == StereoOff(h)

NoCommandExecute(h) == h

NoCommandUndo(h) == h

(***************************************************************************)
(* Dynamic dispatch of c.execute() / c.undo() on a leaf command; the call  *)
(* is logged with its caller.                                              *)
(***************************************************************************)
Logged(caller, c, method, h) ==
  [h EXCEPT !.calls = Append(@, <<caller, c, method>>)]

LeafExecute(caller, c, h) ==
  LET g == Logged(caller, c, "execute", h) IN
  CASE c[1] = "CeilingFanMediumCommand" -> CeilingFanMediumExecute(c, g)
    [] c[1] = "CeilingFanHighCommand" -> CeilingFanHighExecute(c, g)
    [] c[1] = "CeilingFanLowCommand" -> CeilingFanLowExecute(c, g)
    [] c[1] = "CeilingFanOffCommand" -> CeilingFanOffExecute(c, g)
    [] c[1] = "LightOffCommand" -> LightOffCommandExecute(g)
    [] c[1] = "StereoOnWithCDCommand" -> StereoOnWithCDCommandExecute(g)
    [] c[1] = "NoCommand" -> NoCommandExecute(g)

LeafUndo(caller, c, h) ==
  LET g == Logged(caller, c, "undo", h) IN
  CASE c \in FanCommands -> CeilingFanUndo(c, g)
    [] c[1] = "LightOffCommand" -> LightOffCommandUndo(g)
    [] c[1] = "StereoOnWithCDCommand" -> StereoOnWithCDCommandUndo(g)
    [] c[1] = "NoCommand" -> NoCommandUndo(g)

(***************************************************************************)
(* MacroCommand: forEach over the child list, in index order.              *)
(***************************************************************************)
RECURSIVE ForEachExecute(_, _)
ForEachExecute(cmds, h) ==
  IF cmds = <<>> THEN h
  ELSE ForEachExecute(Tail(cmds), LeafExecute("MacroCommand", Head(cmds), h))

RECURSIVE ForEachUndoReversed(_, _)
ForEachUndoReversed(cmds, h) ==
  IF cmds = <<>> THEN h
  ELSE ForEachUndoReversed(SubSeq(cmds, 1, Len(cmds) - 1),
                           LeafUndo("MacroCommand", cmds[Len(cmds)], h))

RECURSIVE ForEachUndo(_, _)
ForEachUndo(cmds, h) ==
  IF cmds = <<>> THEN h
  ELSE ForEachUndo(Tail(cmds), LeafUndo("MacroCommand", Head(cmds), h))

MacroCommandExecute(h) == ForEachExecute(commands, h)

MacroCommandUndoReversed(h) == ForEachUndoReversed(commands, h)

MacroCommandUndo(h) == ForEachUndo(commands, h)

(***************************************************************************)
(* Inputs                                                                  *)
(***************************************************************************)
\* commands a client puts into a MacroCommand
MacroChildren == {ceilingFanHigh, ceilingFanLow, livingRoomLightOff, stereoOnWithCD}

RECURSIVE SeqsUpTo(_, _)
SeqsUpTo(S, n) ==
  IF n = 0 THEN {<<>>}
  ELSE LET shorter == SeqsUpTo(S, n - 1) IN
       shorter \cup {Append(q, x) : q \in shorter, x \in S}

ChildLists == SeqsUpTo(MacroChildren, MaxMacroLen)

(***************************************************************************)
(* RemoteLoaderWithUndo: a JavaScript array is a map from the indices that *)
(* were assigned to their values; its length is one more than the largest  *)
(* assigned index.                                                         *)
(***************************************************************************)
Store(arr, k, v) == [i \in (DOMAIN arr) \cup {k} |-> IF i = k THEN v ELSE arr[i]]

Read(arr, k) == IF k \in DOMAIN arr THEN arr[k] ELSE undefined

Length(arr) ==
  LET idx == {i \in DOMAIN arr : i >= 0} IN
  IF idx = {} THEN 0 ELSE 1 + (CHOOSE m \in idx : \A i \in idx : i <= m)

NewOnCommandsShort == [i \in 0..(Capacity - 2) |-> NoCommand(2 * i)]

NewOnCommands == [i \in 0..(Capacity - 1) |-> NoCommand(2 * i)]

NewOffCommands == [i \in 0..(Capacity - 1) |-> NoCommand(2 * i + 1)]

NewUndoCommandUnset == undefined

NewUndoCommand == NoCommand(2 * Capacity)

(***************************************************************************)
(* History bookkeeping shared by the actions                               *)
(***************************************************************************)
Op(kind, c, slot) == [kind |-> kind, cmd |-> c, slot |-> slot]

Commit(h) ==
  /\ speed' = h.speed
  /\ light' = h.light
  /\ stereo' = h.stereo
  /\ prevSpeed' = h.prevSpeed
  /\ calls' = h.calls
  /\ reports' = h.reports

InitDevices ==
  /\ speed = OFF
  /\ light = "off"
  /\ stereo = "off"
  /\ prevSpeed = [c \in FanCommands |-> OFF]
  /\ calls = <<>>
  /\ reports = <<>>
  /\ err = FALSE

InitRemote ==
  /\ onCommands = NewOnCommands
  /\ offCommands = NewOffCommands
  /\ undoCommand = NewUndoCommand

InitHistory ==
  /\ lastOp = Op("new", undefined, 0)
  /\ pre = None
  /\ rt = None
  /\ everSet = FALSE
  /\ everPushed = FALSE
  /\ lastPushed = undefined
  /\ scen = 0
  /\ undos = 0
  /\ stringBuff = <<>>
  /\ rebound = undefined

InitPizza ==
  /\ lastOrder = [who |-> "none", op |-> "none", type |-> ""]
  /\ pizza = "none"
  /\ steps = <<>>
  /\ thrown = ""
  /\ served = <<>>

\* new WeatherData() and the field initialisers of the two displays
InitWeather ==
  /\ weatherData = [observers |-> <<>>, temperature |-> 0, humidity |-> 0,
                    pressure |-> 0]
  /\ currentDisplay = [temperature |-> 0, humidity |-> 0, pressure |-> 0]
  /\ avgMaxMinDisplay = [currentTemperature |-> 80, previousTemperature |-> 80,
                         minTemperature |-> 80, maxTemperature |-> 80]
  /\ updates = <<>>
  /\ weatherErr = ""
  /\ weatherOp = [kind |-> "new", o |-> "none", m |-> <<0, 0, 0>>]
  /\ temps = {}
  /\ beforeLast = 80

\* the clients that call getInstance and keep what it returned
Clients == {"a", "b", "c"}

\* static uniqueInstance is undefined until the first getInstance()
InitSingleton ==
  /\ uniqueInstance = 0
  /\ constructed = 0
  /\ refs = [c \in Clients |-> 0]
  /\ enumRefs = [c \in Clients |-> "none"]
  /\ first = 0
  /\ gets = 0

Init ==
  /\ InitDevices
  /\ InitRemote
  /\ InitHistory
  /\ commands = <<>>
  /\ InitPizza
  /\ InitWeather
  /\ InitSingleton

remoteHistory == <<everSet, everPushed, lastPushed, scen, undos, stringBuff,
                   rebound>>

(***************************************************************************)
(* Spec: a client calls the devices and the leaf commands directly         *)
(***************************************************************************)
CeilingFanCall(m) ==
  /\ Commit(CASE m = "high" -> high(Heap)
              [] m = "medium" -> medium(Heap)
              [] m = "low" -> low(Heap)
              [] m = "off" -> off(Heap))
  /\ err' = FALSE
  /\ lastOp' = Op(m, undefined, 0)
  /\ pre' = Devices(Heap)
  /\ rt' = None
  /\ UNCHANGED <<commands, remoteVars, remoteHistory, otherVars>>

LightCall(m) ==
  /\ Commit(IF m = "on" THEN LightOn(Heap) ELSE LightOff(Heap))
  /\ err' = FALSE
  /\ lastOp' = Op("light " \o m, undefined, 0)
  /\ pre' = None
  /\ rt' = None
  /\ UNCHANGED <<commands, remoteVars, remoteHistory, otherVars>>

StereoCall(m) ==
  /\ Commit(IF m = "on" THEN StereoOn(Heap) ELSE StereoOff(Heap))
  /\ err' = FALSE
  /\ lastOp' = Op("stereo " \o m, undefined, 0)
  /\ pre' = None
  /\ rt' = None
  /\ UNCHANGED <<commands, remoteVars, remoteHistory, otherVars>>

\* new CeilingFan*Command(ceilingFan): the object c is built anew
NewCeilingFanCommand(c) ==
  /\ Commit([Heap EXCEPT !.prevSpeed[c] = NewCeilingFanCommandPrevSpeed(Heap)])
  /\ err' = FALSE
  /\ lastOp' = Op("new", c, 0)
  /\ pre' = None
  /\ rt' = None
  /\ UNCHANGED <<commands, remoteVars, remoteHistory, otherVars>>

CommandExecute(c) ==
  /\ Commit(LeafExecute("client", c, Heap))
  /\ err' = FALSE
  /\ lastOp' = Op("execute", c, 0)
  /\ pre' = Devices(Heap)
  /\ rt' = None
  /\ UNCHANGED <<commands, remoteVars, remoteHistory, otherVars>>

CommandUndo(c) ==
  /\ Commit(LeafUndo("client", c, Heap))
  /\ err' = FALSE
  /\ lastOp' = Op("undo", c, 0)
  /\ pre' = None
  /\ rt' = IF lastOp = Op("execute", c, 0) THEN pre ELSE None
  /\ UNCHANGED <<commands, remoteVars, remoteHistory, otherVars>>

Next ==
  \/ \E m \in {"high", "medium", "low", "off"} : CeilingFanCall(m)
  \/ \E m \in {"on", "off"} : LightCall(m)
  \/ \E m \in {"on", "off"} : StereoCall(m)
  \/ \E c \in FanCommands : NewCeilingFanCommand(c)
  \/ \E c \in LeafCommands : CommandExecute(c)
  \/ \E c \in LeafCommands : CommandUndo(c)

Spec == Init /\ [][Next]_vars

(***************************************************************************)
(* SpecMacro: a client builds a MacroCommand, executes and undoes it       *)
(***************************************************************************)
NewMacroCommand(cmds) ==
  /\ commands' = cmds
  /\ Commit(Heap)
  /\ err' = FALSE
  /\ lastOp' = Op("new", macroCommand, 0)
  /\ pre' = None
  /\ rt' = None
  /\ UNCHANGED <<remoteVars, remoteHistory, otherVars>>

MacroExecute ==
  /\ Commit(MacroCommandExecute(Logged("client", macroCommand, "execute", Heap)))
  /\ err' = FALSE
  /\ lastOp' = Op("execute", macroCommand, 0)
  /\ pre' = Devices(Heap)
  /\ rt' = None
  /\ UNCHANGED <<commands, remoteVars, remoteHistory, otherVars>>

MacroUndo ==
  /\ Commit(MacroCommandUndo(Logged("client", macroCommand, "undo", Heap)))
  /\ err' = FALSE
  /\ lastOp' = Op("undo", macroCommand, 0)
  /\ pre' = None
  /\ rt' = IF lastOp = Op("execute", macroCommand, 0) THEN pre ELSE None
  /\ UNCHANGED <<commands, remoteVars, remoteHistory, otherVars>>

NextMacro ==
  \/ \E cmds \in ChildLists : NewMacroCommand(cmds)
  \/ MacroExecute
  \/ MacroUndo

SpecMacro == Init /\ [][NextMacro]_vars

(***************************************************************************)
(* SpecRemote: RemoteLoader wires a RemoteLoaderWithUndo to fan commands   *)
(* on one CeilingFan (all built while the fan is OFF) and a client pushes  *)
(* its buttons.                                                            *)
(***************************************************************************)
\* setCommand calls a client makes: main's slots 0 and 1, a rebinding of
\* slot 0, a slot of binary-device commands, and the slot number MaxSlot
\* (past the seven slots of the constructor)
Bindings ==
  { <<0, ceilingFanMedium, ceilingFanOff>>,
    <<1, ceilingFanHigh, ceilingFanOff>>,
    <<0, ceilingFanHigh, ceilingFanMedium>>,
    <<2, stereoOnWithCD, livingRoomLightOff>>,
    <<MaxSlot, ceilingFanHigh, ceilingFanMedium>> }

PushSlots == 0..MaxSlot

\* the buttons a client pushes: every one while the invoker is as constructed;
\* once setCommand was called, those of the slots that setCommand is called
\* with and of the indices behind the constructor's slots (the other
\* constructor slots keep their NoCommand and behave like an unbound slot 2)
ButtonSlots ==
  IF everSet
  THEN {b[1] : b \in Bindings} \cup (Capacity..MaxSlot)
  ELSE PushSlots

Pushes == {"onButtonWasPushed", "offButtonWasPushed"}

\* history: the command setCommand(slot, ...) binds to the button whose push
\* was the operation right before it
Rebound(slot, onCommand, offCommand) ==
  IF lastOp.kind \in Pushes /\ ~err /\ lastOp.slot = slot
  THEN IF lastOp.kind = "onButtonWasPushed" THEN onCommand ELSE offCommand
  ELSE undefined

\* an invoker that remembers the slot: rebinding the slot retargets undo
setCommandRetargets(slot, onCommand, offCommand) ==
  /\ onCommands' = Store(onCommands, slot, onCommand)
  /\ offCommands' = Store(offCommands, slot, offCommand)
  /\ undoCommand' = IF undoCommand = Read(onCommands, slot) THEN onCommand
                    ELSE IF undoCommand = Read(offCommands, slot) THEN offCommand
                    ELSE undoCommand
  /\ Commit(Heap)
  /\ err' = FALSE
  /\ lastOp' = Op("setCommand", onCommand, slot)
  /\ pre' = None
  /\ rt' = None
  /\ everSet' = TRUE
  /\ scen' = 0
  /\ undos' = 0
  /\ stringBuff' = <<>>
  /\ rebound' = Rebound(slot, onCommand, offCommand)
  /\ UNCHANGED <<commands, everPushed, lastPushed, otherVars>>

setCommandBothOn(slot, onCommand, offCommand) ==
  /\ onCommands' = Store(onCommands, slot, onCommand)
  /\ offCommands' = Store(offCommands, slot, onCommand)
  /\ UNCHANGED undoCommand
  /\ Commit(Heap)
  /\ err' = FALSE
  /\ lastOp' = Op("setCommand", onCommand, slot)
  /\ pre' = None
  /\ rt' = None
  /\ everSet' = TRUE
  /\ scen' = 0
  /\ undos' = 0
  /\ stringBuff' = <<>>
  /\ rebound' = Rebound(slot, onCommand, offCommand)
  /\ UNCHANGED <<commands, everPushed, lastPushed, otherVars>>

setCommand(slot, onCommand, offCommand) ==
  /\ onCommands' = Store(onCommands, slot, onCommand)
  /\ offCommands' = Store(offCommands, slot, offCommand)
  /\ UNCHANGED undoCommand
  /\ Commit(Heap)
  /\ err' = FALSE
  /\ lastOp' = Op("setCommand", onCommand, slot)
  /\ pre' = None
  /\ rt' = None
  /\ everSet' = TRUE
  /\ scen' = 0
  /\ undos' = 0
  /\ stringBuff' = <<>>
  /\ rebound' = Rebound(slot, onCommand, offCommand)
  /\ UNCHANGED <<commands, everPushed, lastPushed, otherVars>>

\* the value assigned to undoCommand after the command at arr[slot] ran
PushedUndoCommandStale(arr, slot) == undoCommand

\* an invoker that keeps the last real command when a NoCommand was pushed
PushedUndoCommandKeepReal(arr, slot) ==
  IF Read(arr, slot)[1] = "NoCommand" THEN undoCommand ELSE Read(arr, slot)

PushedUndoCommand(arr, slot) == Read(arr, slot)

\* the two statements swapped: undoCommand = arr[slot]; arr[slot].execute()
ButtonWasPushedRecordFirst(kind, arr, slot) ==
  LET c == Read(arr, slot) IN
  /\ lastOp' = Op(kind, c, slot)
  /\ everPushed' = TRUE
  /\ rt' = None
  /\ undos' = 0
  /\ stringBuff' = <<>>
  /\ rebound' = undefined
  /\ UNCHANGED <<commands, onCommands, offCommands, everSet, otherVars>>
  /\ undoCommand' = c
  /\ IF c = undefined
     THEN /\ err' = TRUE
          /\ Commit(Heap)
          /\ pre' = None
          /\ UNCHANGED lastPushed
     ELSE LET h == LeafExecute("RemoteLoaderWithUndo", c, Heap) IN
          /\ err' = FALSE
          /\ Commit(h)
          /\ pre' = Devices(Heap)
          /\ lastPushed' = h.calls[1][2]

\* arr[slot].execute(); undoCommand = arr[slot]  (arr is on- or offCommands)
ButtonWasPushed(kind, arr, slot) ==
  LET c == Read(arr, slot) IN
  /\ lastOp' = Op(kind, c, slot)
  /\ everPushed' = TRUE
  /\ rt' = None
  /\ undos' = 0
  /\ stringBuff' = <<>>
  /\ rebound' = undefined
  /\ UNCHANGED <<commands, onCommands, offCommands, everSet, otherVars>>
  /\ IF c = undefined
     THEN \* TypeError: execute of undefined; the assignment is not reached
          /\ err' = TRUE
          /\ Commit(Heap)
          /\ pre' = None
          /\ UNCHANGED <<undoCommand, lastPushed>>
     ELSE LET h == LeafExecute("RemoteLoaderWithUndo", c, Heap) IN
          /\ err' = FALSE
          /\ Commit(h)
          /\ undoCommand' = PushedUndoCommand(arr, slot)
          /\ pre' = Devices(Heap)
          /\ lastPushed' = h.calls[1][2]

onButtonWasPushed(slot) ==
  /\ ButtonWasPushed("onButtonWasPushed", onCommands, slot)
  /\ scen' = IF /\ slot = 0
                /\ Read(onCommands, 0) = ceilingFanMedium
                /\ Read(offCommands, 0) = ceilingFanOff
                /\ speed = OFF
             THEN 1 ELSE 0

offButtonWasPushed(slot) ==
  /\ ButtonWasPushed("offButtonWasPushed", offCommands, slot)
  /\ scen' = IF slot = 0 /\ scen = 1 THEN 2 ELSE 0

\* the command undoButtonWasPushed calls undo() on
UndoTargetSlotZero == Read(onCommands, 0)

UndoTarget == undoCommand

undoButtonWasPushed ==
  /\ lastOp' = Op("undoButtonWasPushed", UndoTarget, 0)
  /\ pre' = None
  /\ rt' = IF lastOp.kind \in Pushes /\ ~err THEN pre ELSE None
  /\ scen' = IF scen = 2 THEN 3 ELSE 0
  /\ undos' = IF undos = 0 THEN 1 ELSE 2
  /\ stringBuff' = <<>>
  /\ rebound' = IF lastOp.kind = "setCommand" THEN rebound ELSE undefined
  /\ UNCHANGED <<commands, remoteVars, everSet, everPushed, lastPushed, otherVars>>
  /\ IF UndoTarget = undefined
     THEN /\ err' = TRUE
          /\ Commit(Heap)
     ELSE /\ err' = FALSE
          /\ Commit(LeafUndo("RemoteLoaderWithUndo", UndoTarget, Heap))

\* toString(): one line "[slot i] <on class>    <off class>" for each i below
\* onCommands.length (the heading line is left out); reading .constructor of
\* an index that was never assigned throws a TypeError
ToStringThrows ==
  \E i \in 0..(Length(onCommands) - 1) :
    Read(onCommands, i) = undefined \/ Read(offCommands, i) = undefined

ToStringLines ==
  [n \in 1..Length(onCommands) |->
     <<n - 1, Read(onCommands, n - 1)[1], Read(offCommands, n - 1)[1]>>]

toString ==
  /\ lastOp' = Op("toString", undefined, 0)
  /\ err' = ToStringThrows
  /\ stringBuff' = IF ToStringThrows THEN <<>> ELSE ToStringLines
  /\ Commit(Heap)
  /\ pre' = None
  /\ rt' = None
  /\ scen' = 0
  /\ undos' = 0
  /\ rebound' = undefined
  /\ UNCHANGED <<commands, remoteVars, everSet, everPushed, lastPushed, otherVars>>

NextRemote ==
  \/ \E b \in Bindings : setCommand(b[1], b[2], b[3])
  \/ \E slot \in ButtonSlots : onButtonWasPushed(slot)
  \/ \E slot \in ButtonSlots : offButtonWasPushed(slot)
  \/ undoButtonWasPushed
  \/ toString

SpecRemote == Init /\ [][NextRemote]_vars

(***************************************************************************)
(* SpecPizza: the pizza factories and stores (4-factory-pattern-pizza.ts   *)
(* and the factory-method / abstract-factory file).  A call returns a      *)
(* pizza of some class or throws an Error with a message.                  *)
(***************************************************************************)
Returned(class) == [pizza |-> class, thrown |-> ""]

Threw(message) == [pizza |-> "none", thrown |-> message]

SimplePizzaFactoryCreatePizza(type) ==
  IF type = "cheese" THEN Returned("CheesePizza")
  ELSE Returned("MargheritaPizza")

NYPizzaFactoryCreatePizza(type) ==
  IF type = "cheese" THEN Returned("CheesePizza")
  ELSE Returned("MargheritaPizza")

ChicagoPizzaFactoryCreatePizza(type) ==
  IF type = "cheese" THEN Returned("CheesePizza")
  ELSE Returned("MargheritaPizza")

NYPizzaStoreCreatePizza(type) ==
  IF type = "cheese" THEN Returned("NYStyleCheesePizza")
  ELSE Returned("NYStyleCheesePizza")

ChicagoPizzaStoreCreatePizza(type) ==
  IF type = "cheese" THEN Returned("ChicagoStyleCheesePizza")
  ELSE Returned("ChicagoStyleCheesePizza")

NYPizzaStore2CreatePizza(type) ==
  IF type = "cheese" THEN Returned("CheesePizza")
  ELSE IF type = "clam" THEN Returned("ClaimsPizza")
  ELSE Threw("Unknown pizza type: " \o type)

Factories == {"SimplePizzaFactory", "NYPizzaFactory", "ChicagoPizzaFactory"}

Stores == {"NYPizzaStore", "ChicagoPizzaStore", "NYPizzaStore2"}

\* the type strings a client asks for
PizzaTypes == {"cheese", "clam", "margherita", "pepperoni"}

CreatePizza(who, type) ==
  CASE who = "SimplePizzaFactory" -> SimplePizzaFactoryCreatePizza(type)
    [] who = "NYPizzaFactory" -> NYPizzaFactoryCreatePizza(type)
    [] who = "ChicagoPizzaFactory" -> ChicagoPizzaFactoryCreatePizza(type)
    [] who = "NYPizzaStore" -> NYPizzaStoreCreatePizza(type)
    [] who = "ChicagoPizzaStore" -> ChicagoPizzaStoreCreatePizza(type)
    [] who = "NYPizzaStore2" -> NYPizzaStore2CreatePizza(type)

\* PizzaStore.orderPizza / PizzaStore2.orderPizza after createPizza returned
OrderSteps == <<"prepare", "cut", "bake", "box">>

Serve(r) ==
  /\ pizza' = r.pizza
  /\ thrown' = r.thrown
  /\ served' = IF r.thrown = "" THEN Append(served, r.pizza) ELSE served

createPizza(who, type) ==
  /\ Len(served) < MaxOrders
  /\ lastOrder' = [who |-> who, op |-> "createPizza", type |-> type]
  /\ Serve(CreatePizza(who, type))
  /\ steps' = <<>>
  /\ UNCHANGED <<commandVars, weatherVars, singletonVars>>

orderPizza(store, type) ==
  LET r == CreatePizza(store, type) IN
  /\ Len(served) < MaxOrders
  /\ lastOrder' = [who |-> store, op |-> "orderPizza", type |-> type]
  /\ Serve(r)
  /\ steps' = IF r.thrown = "" THEN OrderSteps ELSE <<>>
  /\ UNCHANGED <<commandVars, weatherVars, singletonVars>>

NextPizza ==
  \/ \E who \in Factories \cup Stores, type \in PizzaTypes : createPizza(who, type)
  \/ \E store \in Stores, type \in PizzaTypes : orderPizza(store, type)

SpecPizza == Init /\ [][NextPizza]_vars

(***************************************************************************)
(* SpecWeather: a WeatherData, a CurrentConditionsDisplay, a                *)
(* StatisticsDisplay and an AvgMaxMinDisplay (unnamed/part_004); a client  *)
(* registers and removes the displays and sets measurements.               *)
(***************************************************************************)
Observers == {"currentDisplay", "statisticsDisplay", "avgMaxMinDisplay"}

\* the measurements of WeatherStation.main, the pressure in tenths
Measurements == {<<80, 65, 304>>, <<82, 70, 292>>, <<78, 90, 292>>}

NotImplemented == "Method not implemented."

WeatherHeap == [weatherData |-> weatherData, currentDisplay |-> currentDisplay,
                avgMaxMinDisplay |-> avgMaxMinDisplay, updates |-> <<>>,
                thrown |-> ""]

MathMin(a, b) == IF a <= b THEN a ELSE b

MathMax(a, b) == IF a >= b THEN a ELSE b

CurrentConditionsDisplayUpdate(w, temp, humidity, pressure) ==
  [w EXCEPT !.currentDisplay = [temperature |-> temp, humidity |-> humidity,
                                pressure |-> pressure]]

StatisticsDisplayUpdate(w) == [w EXCEPT !.thrown = NotImplemented]

\* previousTemperature is assigned after currentTemperature
AvgMaxMinDisplayUpdateLate(w, temp, humidity, pressure) ==
  [w EXCEPT !.avgMaxMinDisplay =
     [currentTemperature |-> temp,
      previousTemperature |-> temp,
      minTemperature |-> MathMin(@.minTemperature, temp),
      maxTemperature |-> MathMax(@.maxTemperature, temp)]]

AvgMaxMinDisplayUpdate(w, temp, humidity, pressure) ==
  [w EXCEPT !.avgMaxMinDisplay =
     [currentTemperature |-> temp,
      previousTemperature |-> @.currentTemperature,
      minTemperature |-> MathMin(@.minTemperature, temp),
      maxTemperature |-> MathMax(@.maxTemperature, temp)]]

\* observer.update(temp, humidity, pressure), logged
Update(observer, w, temp, humidity, pressure) ==
  LET g == [w EXCEPT !.updates = Append(@, <<observer, temp, humidity, pressure>>)]
  IN CASE observer = "currentDisplay" ->
            CurrentConditionsDisplayUpdate(g, temp, humidity, pressure)
       [] observer = "statisticsDisplay" -> StatisticsDisplayUpdate(g)
       [] observer = "avgMaxMinDisplay" ->
            AvgMaxMinDisplayUpdate(g, temp, humidity, pressure)

\* observers.forEach(observer => observer.update(...)) from index i on; an
\* Error thrown by an update ends the loop
RECURSIVE ForEachObserver(_, _)
ForEachObserver(w, i) ==
  IF i > Len(w.weatherData.observers) \/ w.thrown # ""
  THEN w
  ELSE ForEachObserver(Update(w.weatherData.observers[i], w,
                              w.weatherData.temperature,
                              w.weatherData.humidity,
                              w.weatherData.pressure), i + 1)

notifyObservers(w) == ForEachObserver(w, 1)

measturementChanged(w) == notifyObservers(w)

\* observers.indexOf(o), counted from 1; 0 when o is not in the list
IndexOf(list, o) ==
  IF \E i \in 1..Len(list) : list[i] = o
  THEN CHOOSE i \in 1..Len(list) :
         list[i] = o /\ \A j \in 1..(i - 1) : list[j] # o
  ELSE 0

\* list.splice(index, 1)
Splice(list, index) ==
  [i \in 1..(Len(list) - 1) |-> IF i < index THEN list[i] ELSE list[i + 1]]

CommitWeather(w) ==
  /\ weatherData' = w.weatherData
  /\ currentDisplay' = w.currentDisplay
  /\ avgMaxMinDisplay' = w.avgMaxMinDisplay
  /\ updates' = w.updates
  /\ weatherErr' = w.thrown

registerObserver(o) ==
  /\ Len(weatherData.observers) < MaxObservers
  /\ CommitWeather([WeatherHeap EXCEPT !.weatherData.observers = Append(@, o)])
  /\ weatherOp' = [kind |-> "registerObserver", o |-> o, m |-> <<0, 0, 0>>]
  /\ UNCHANGED <<temps, beforeLast, commandVars, pizzaVars, singletonVars>>

removeObserver(o) ==
  LET index == IndexOf(weatherData.observers, o) IN
  /\ CommitWeather(IF index >= 1
                   THEN [WeatherHeap EXCEPT
                           !.weatherData.observers = Splice(@, index)]
                   ELSE WeatherHeap)
  /\ weatherOp' = [kind |-> "removeObserver", o |-> o, m |-> <<0, 0, 0>>]
  /\ UNCHANGED <<temps, beforeLast, commandVars, pizzaVars, singletonVars>>

setMeasurements(temperature, humidity, pressure) ==
  LET w == measturementChanged(
             [WeatherHeap EXCEPT !.weatherData.temperature = temperature,
                                 !.weatherData.humidity = humidity,
                                 !.weatherData.pressure = pressure])
      got == SelectSeq(w.updates, LAMBDA u : u[1] = "avgMaxMinDisplay")
  IN
  /\ CommitWeather(w)
  /\ weatherOp' = [kind |-> "setMeasurements", o |-> "none",
                   m |-> <<temperature, humidity, pressure>>]
  /\ temps' = temps \cup {got[i][2] : i \in 1..Len(got)}
  /\ beforeLast' = CASE Len(got) = 0 -> beforeLast
                     [] Len(got) = 1 -> avgMaxMinDisplay.currentTemperature
                     [] OTHER -> got[Len(got) - 1][2]
  /\ UNCHANGED <<commandVars, pizzaVars, singletonVars>>

NextWeather ==
  \/ \E o \in Observers : registerObserver(o)
  \/ \E o \in Observers : removeObserver(o)
  \/ \E m \in Measurements : setMeasurements(m[1], m[2], m[3])

SpecWeather == Init /\ [][NextWeather]_vars

(***************************************************************************)
(* SpecSingleton: clients call Singleton.getInstance() and                 *)
(* SingletonEnumClass.getInstance() (5-singleton-pattern.ts, lines 1-22)   *)
(***************************************************************************)
\* new Singleton(): the n-th object constructed is object n
NewSingleton(st) ==
  [st EXCEPT !.constructed = @ + 1, !.uniqueInstance = st.constructed + 1]

\* getInstance() without the test of uniqueInstance
SingletonGetInstanceNoTest(st) ==
  LET t == NewSingleton(st) IN [t EXCEPT !.returned = t.uniqueInstance]

SingletonGetInstance(st) ==
  LET t == IF st.uniqueInstance = 0 THEN NewSingleton(st) ELSE st
  IN [t EXCEPT !.returned = t.uniqueInstance]

EnumValue == "SingletonEnum.INSTANCE"

SingletonEnumClassGetInstance == EnumValue

getInstance(client) ==
  LET t == SingletonGetInstance([uniqueInstance |-> uniqueInstance,
                                 constructed |-> constructed,
                                 returned |-> 0])
  IN
  /\ gets < MaxGets
  /\ uniqueInstance' = t.uniqueInstance
  /\ constructed' = t.constructed
  /\ refs' = [refs EXCEPT ![client] = t.returned]
  /\ first' = IF gets = 0 THEN t.returned ELSE first
  /\ gets' = gets + 1
  /\ UNCHANGED <<enumRefs, commandVars, pizzaVars, weatherVars>>

getInstanceEnum(client) ==
  /\ enumRefs' = [enumRefs EXCEPT ![client] = SingletonEnumClassGetInstance]
  /\ UNCHANGED <<uniqueInstance, constructed, refs, first, gets, commandVars,
                 pizzaVars, weatherVars>>

NextSingleton ==
  \/ \E client \in Clients : getInstance(client)
  \/ \E client \in Clients : getInstanceEnum(client)

SpecSingleton == Init /\ [][NextSingleton]_vars

(***************************************************************************)
(* Properties                                                              *)
(***************************************************************************)
CallsBy(caller) == SelectSeq(calls, LAMBDA e : e[1] = caller)

ChildCalls(method) ==
  [i \in 1..Len(commands) |-> <<"MacroCommand", commands[i], method>>]

\* C1 (Spec): a fan command's execute() followed at once by its undo() leaves
\* the fan at the speed it had before the execute(), for each of the four
\* commands and each starting speed, whatever prevSpeed held from the
\* constructor.
C1_SnapshotRestore ==
  \A c \in FanCommands :
    (lastOp = Op("undo", c, 0) /\ rt # None) => speed = rt.speed

\* the fan ran at MEDIUM, ceilingFanLow (built while the fan was HIGH or
\* anything else) was executed and undone, and the fan is back
C1_Witness ==
  /\ lastOp = Op("undo", ceilingFanLow, 0)
  /\ rt # None
  /\ rt.speed = MEDIUM
  /\ prevSpeed[ceilingFanLow] = MEDIUM

\* C2 (SpecRemote): pushing the on or off button of a slot that holds a fan
\* command and then at once the undo button leaves the fan at the speed it
\* had before the button push; with slot 0 = (ceilingFanMedium,
\* ceilingFanOff) and the fan OFF, on(0), off(0), undo give MEDIUM, OFF,
\* MEDIUM.
C2_UndoAfterPush ==
  /\ (/\ lastOp.kind = "undoButtonWasPushed"
      /\ rt # None
      /\ lastPushed \in FanCommands) => speed = rt.speed
  /\ scen = 1 => speed = MEDIUM
  /\ scen = 2 => speed = OFF
  /\ scen = 3 => speed = MEDIUM

\* the end of main's scenario: undo right after off(0), which followed on(0)
C2_Witness ==
  /\ scen = 3
  /\ lastOp.kind = "undoButtonWasPushed"
  /\ rt # None
  /\ lastPushed = ceilingFanOff

\* C3 (Spec): execute() then undo() of LightOffCommand or of
\* StereoOnWithCDCommand leaves the light and the stereo in the on/off state
\* they had before the execute(), whichever state that was.
C3_ComplementRestore ==
  \A c \in {livingRoomLightOff, stereoOnWithCD} :
    (lastOp = Op("undo", c, 0) /\ rt # None) =>
      (light = rt.light /\ stereo = rt.stereo)

\* C4 (SpecMacro): MacroCommand.execute() followed at once by
\* MacroCommand.undo() leaves the fan at the speed it had before the
\* execute(), for every child list.
C4_MacroReversible ==
  (lastOp = Op("undo", macroCommand, 0) /\ rt # None) => speed = rt.speed

\* C5 (SpecMacro): MacroCommand.execute() calls execute() once on each child
\* in list order, and MacroCommand.undo() calls undo() once on each child in
\* the same list order.
C5_MacroOrdering ==
  /\ lastOp = Op("execute", macroCommand, 0) =>
       CallsBy("MacroCommand") = ChildCalls("execute")
  /\ lastOp = Op("undo", macroCommand, 0) =>
       CallsBy("MacroCommand") = ChildCalls("undo")

\* a macro of two different children was undone
C5_Witness ==
  /\ lastOp = Op("undo", macroCommand, 0)
  /\ Len(commands) = 2
  /\ commands[1] # commands[2]
  /\ Len(calls) = 3

\* C6 (SpecRemote): once a button push has executed a command,
\* undoButtonWasPushed calls undo() on exactly one command, the one that the
\* most recent completed on/off push executed.
C6_LastExecutedOverwrite ==
  (lastOp.kind = "undoButtonWasPushed" /\ lastPushed # undefined) =>
    calls = << <<"RemoteLoaderWithUndo", lastPushed, "undo">> >>

\* on(0) ran ceilingFanMedium, on(1) ran ceilingFanHigh from MEDIUM, and undo
\* right after it undid ceilingFanHigh alone: the fan is at MEDIUM, not OFF
C6_Witness ==
  /\ lastOp.kind = "undoButtonWasPushed"
  /\ rt # None
  /\ lastPushed = ceilingFanHigh
  /\ prevSpeed[ceilingFanHigh] = MEDIUM
  /\ prevSpeed[ceilingFanMedium] = OFF
  /\ speed = MEDIUM

\* C7 (SpecRemote): on an invoker on which setCommand was never called, a
\* push of the on or off button of any slot 0..6 raises no error, writes no
\* device report and leaves every device as it was.
C7_DefaultSlot ==
  (/\ ~everSet
   /\ lastOp.kind \in Pushes
   /\ lastOp.slot \in 0..(Capacity - 1)) =>
    (~err /\ reports = <<>> /\ pre = Devices(Heap))

\* the off button of the last slot was pushed on the unwired invoker
C7_Witness ==
  /\ ~everSet
  /\ lastOp.kind = "offButtonWasPushed"
  /\ lastOp.slot = Capacity - 1
  /\ lastOp.cmd = NoCommand(2 * Capacity - 1)

\* C8 (SpecRemote): an undoButtonWasPushed before any on/off button push
\* raises no error, writes no report and changes no device, no prevSpeed and
\* nothing of the invoker.
C8_UndoBeforeTrigger ==
  [][(~everPushed /\ lastOp'.kind = "undoButtonWasPushed") =>
       /\ ~err'
       /\ reports' = <<>>
       /\ UNCHANGED <<speed, light, stereo, prevSpeed, onCommands,
                      offCommands, undoCommand>>]_vars

\* undo was pushed on a wired invoker whose buttons were never pushed
C8_Witness ==
  /\ lastOp.kind = "undoButtonWasPushed"
  /\ ~everPushed
  /\ everSet
  /\ Read(onCommands, 0) = ceilingFanMedium

\* C9 (SpecRemote): setCommand with a slot outside 0..6 fails with an error
\* and leaves the slot table, undoCommand and the devices unchanged.
C9_BindingError ==
  [][(lastOp'.kind = "setCommand" /\ lastOp'.slot \notin 0..(Capacity - 1)) =>
       /\ err'
       /\ UNCHANGED <<onCommands, offCommands, undoCommand, speed, light,
                      stereo>>]_vars

\* C10 (SpecRemote): onCommands and offCommands always have the seven slots
\* of the constructor.
C10_FixedSlotCount ==
  /\ Length(onCommands) = Capacity
  /\ Length(offCommands) = Capacity

\* C11 (SpecRemote): every index below the length of onCommands and of
\* offCommands holds a command, and undoCommand is a command.
C11_NoAbsentSlot ==
  /\ \A i \in 0..(Length(onCommands) - 1) : Read(onCommands, i) # undefined
  /\ \A i \in 0..(Length(offCommands) - 1) : Read(offCommands, i) # undefined
  /\ undoCommand # undefined

\* C12 (SpecRemote): undoButtonWasPushed leaves undoCommand as it is, so it
\* stays the command of the most recent completed push; a second undo in a
\* row on a fan command leaves the fan at the speed the first undo gave it.
C12_NoUndoOfUndo ==
  [][lastOp'.kind = "undoButtonWasPushed" =>
       /\ undoCommand' = undoCommand
       /\ lastPushed # undefined => undoCommand' = lastPushed
       /\ (lastOp.kind = "undoButtonWasPushed" /\ undoCommand \in FanCommands)
            => speed' = speed]_vars

\* undo was pushed twice in a row after ceilingFanHigh had been executed at
\* MEDIUM: the fan is at MEDIUM, not back at HIGH
C12_Witness ==
  /\ lastOp.kind = "undoButtonWasPushed"
  /\ undos = 2
  /\ undoCommand = ceilingFanHigh
  /\ lastPushed = ceilingFanHigh
  /\ prevSpeed[ceilingFanHigh] = MEDIUM
  /\ speed = MEDIUM

\* C13 (Spec): right after execute() of a fan command its prevSpeed is the
\* speed the fan had right before that execute(), and undo() of a fan
\* command leaves every prevSpeed as it is.
C13_SnapshotTiming ==
  [][/\ (lastOp'.kind = "execute" /\ lastOp'.cmd \in FanCommands) =>
          prevSpeed'[lastOp'.cmd] = speed
     /\ (lastOp'.kind = "undo" /\ lastOp'.cmd \in FanCommands) =>
          prevSpeed' = prevSpeed]_vars

\* ceilingFanHigh was executed while the fan ran at LOW
C13_Witness ==
  /\ lastOp = Op("execute", ceilingFanHigh, 0)
  /\ pre # None
  /\ pre.speed = LOW
  /\ prevSpeed[ceilingFanHigh] = LOW
  /\ speed = HIGH

\* C14 (SpecRemote): a push of the on or off button of an index that holds no
\* command raises an error and leaves undoCommand, both arrays, every
\* prevSpeed and every device as they were.
C14_AbortedTrigger ==
  [][(\/ /\ lastOp'.kind = "onButtonWasPushed"
          /\ Read(onCommands, lastOp'.slot) = undefined
       \/ /\ lastOp'.kind = "offButtonWasPushed"
          /\ Read(offCommands, lastOp'.slot) = undefined) =>
        /\ err'
        /\ reports' = <<>>
        /\ UNCHANGED <<undoCommand, onCommands, offCommands, prevSpeed,
                       speed, light, stereo>>]_vars

\* a push failed on the gap below MaxSlot after another push had run a
\* command, which is still the undo target
C14_Witness ==
  /\ err
  /\ lastOp.kind \in Pushes
  /\ lastOp.slot = Capacity
  /\ lastOp.cmd = undefined
  /\ Length(onCommands) > Capacity + 1
  /\ lastPushed = ceilingFanMedium
  /\ undoCommand = ceilingFanMedium

\* C15 (SpecRemote): setCommand(slot, on, off) with slot in 0..6 replaces
\* onCommands[slot] by on and offCommands[slot] by off and nothing else: the
\* other slots, undoCommand, every prevSpeed and every device stay, no
\* command is called and no error is raised.
C15_BindFrame ==
  [][(lastOp'.kind = "setCommand" /\ lastOp'.slot \in 0..(Capacity - 1)) =>
       /\ \E b \in Bindings :
            /\ b[1] = lastOp'.slot
            /\ b[2] = lastOp'.cmd
            /\ onCommands' = [onCommands EXCEPT ![b[1]] = b[2]]
            /\ offCommands' = [offCommands EXCEPT ![b[1]] = b[3]]
       /\ calls' = <<>>
       /\ reports' = <<>>
       /\ ~err'
       /\ UNCHANGED <<undoCommand, prevSpeed, speed, light, stereo>>]_vars

\* slot 0 was rebound to (ceilingFanHigh, ceilingFanMedium) after its former
\* on command had run; slot 1 keeps its binding
C15_Witness ==
  /\ lastOp = Op("setCommand", ceilingFanHigh, 0)
  /\ Read(onCommands, 0) = ceilingFanHigh
  /\ Read(offCommands, 0) = ceilingFanMedium
  /\ Read(onCommands, 1) = ceilingFanHigh
  /\ Read(offCommands, 1) = ceilingFanOff
  /\ undoCommand = ceilingFanMedium
  /\ speed = MEDIUM

\* C16 (SpecRemote): execute() of a fan command, run by a button push, changes
\* only its own prevSpeed and the fan's speed, and undo() of a fan command
\* changes only the fan's speed: the prevSpeed of the other commands, the
\* light, the stereo and both arrays stay.
C16_CommandIsolation ==
  [][/\ (lastOp'.kind \in Pushes /\ lastOp'.cmd \in FanCommands) =>
          /\ \A d \in FanCommands \ {lastOp'.cmd} : prevSpeed'[d] = prevSpeed[d]
          /\ UNCHANGED <<light, stereo, onCommands, offCommands>>
     /\ (lastOp'.kind = "undoButtonWasPushed" /\ lastOp'.cmd \in FanCommands) =>
          UNCHANGED <<prevSpeed, light, stereo, onCommands, offCommands>>]_vars

\* ceilingFanOff ran at HIGH while ceilingFanHigh and ceilingFanMedium hold
\* other snapshots and the stereo and the light are on
C16_Witness ==
  /\ lastOp.kind = "offButtonWasPushed"
  /\ lastOp.cmd = ceilingFanOff
  /\ prevSpeed[ceilingFanOff] = HIGH
  /\ prevSpeed[ceilingFanHigh] = MEDIUM
  /\ prevSpeed[ceilingFanMedium] = OFF
  /\ stereo = "on"
  /\ light = "on"
  /\ speed = OFF

TargetOf(m) ==
  CASE m = "high" -> HIGH
    [] m = "medium" -> MEDIUM
    [] m = "low" -> LOW
    [] m = "off" -> OFF

ReportOf(s) ==
  CASE s = HIGH -> "ceiling fan is on high"
    [] s = MEDIUM -> "ceiling fan is on medium"
    [] s = LOW -> "ceiling fan is on low"
    [] s = OFF -> "ceiling fan is off"

\* C17 (Spec): from every speed each of high(), medium(), low(), off() raises
\* no error, writes exactly one report and leaves the speed at its own
\* target, also when the fan is at that target already; the speed is always
\* one of OFF, LOW, MEDIUM, HIGH.
C17_TotalTransitions ==
  /\ speed \in Speeds
  /\ \A m \in {"high", "medium", "low", "off"} :
       lastOp.kind = m =>
         /\ ~err
         /\ reports = <<ReportOf(TargetOf(m))>>
         /\ speed = TargetOf(m)

\* low() was called on a fan that ran at LOW
C17_Witness ==
  /\ lastOp.kind = "low"
  /\ pre # None
  /\ pre.speed = LOW
  /\ speed = LOW
  /\ Len(reports) = 1

\* C18 (Spec): undo() of each fan command calls exactly one fan transition,
\* the one whose target is the command's prevSpeed; prevSpeed is always one
\* of the four speeds, so undo() never does nothing.
C18_TotalUndoDispatch ==
  /\ \A c \in FanCommands : prevSpeed[c] \in Speeds
  /\ \A c \in FanCommands :
       lastOp = Op("undo", c, 0) =>
         /\ reports = <<ReportOf(prevSpeed[c])>>
         /\ speed = prevSpeed[c]

\* ceilingFanOff, whose snapshot is OFF, was undone without an execute()
\* right before: undo called off() and nothing else
C18_Witness ==
  /\ lastOp = Op("undo", ceilingFanOff, 0)
  /\ prevSpeed[ceilingFanOff] = OFF
  /\ rt = None
  /\ reports = <<"ceiling fan is off">>

\* C19 (SpecRemote): toString() raises no error, returns one line for each
\* index below onCommands.length that names the on and the off command of
\* that index, and changes neither array, undoCommand, any prevSpeed nor any
\* device.
C19_DescribePure ==
  [][lastOp'.kind = "toString" =>
       /\ ~err'
       /\ Len(stringBuff') = Length(onCommands)
       /\ \A n \in 1..Len(stringBuff') :
            stringBuff'[n] =
              <<n - 1, Read(onCommands, n - 1)[1], Read(offCommands, n - 1)[1]>>
       /\ UNCHANGED <<onCommands, offCommands, undoCommand, prevSpeed, speed,
                      light, stereo>>]_vars

\* the type strings for which a factory or store has a product of its own
Recognised(who) ==
  CASE who \in Factories -> {"cheese", "margherita"}
    [] who \in {"NYPizzaStore", "ChicagoPizzaStore"} -> {"cheese"}
    [] who = "NYPizzaStore2" -> {"cheese", "clam"}

\* C20 (SpecPizza): createPizza(type) of every factory and store, asked for a
\* type it does not recognise, throws an error that names the type and
\* returns no pizza, so that orderPizza calls none of prepare, cut, bake, box.
C20_UnknownSelector ==
  (lastOrder.who # "none" /\ lastOrder.type \notin Recognised(lastOrder.who)) =>
    /\ thrown = "Unknown pizza type: " \o lastOrder.type
    /\ pizza = "none"
    /\ steps = <<>>

\* C21 (SpecRemote): when a completed push of the on (off) button of slot s is
\* followed by setCommand(s, ...) that binds another command to that button
\* and then by undoButtonWasPushed, undo() is called once, on the command the
\* push executed, and not on the command now bound to the button.
C21_UndoTargetIsObject ==
  (/\ lastOp.kind = "undoButtonWasPushed"
   /\ rebound # undefined
   /\ rebound # lastPushed) =>
    /\ ~err
    /\ calls = << <<"RemoteLoaderWithUndo", lastPushed, "undo">> >>
    /\ calls[1][2] # rebound

\* on(0) ran ceilingFanMedium from OFF, slot 0 was rebound to
\* (ceilingFanHigh, ceilingFanMedium), and undo put the fan back to OFF
C21_Witness ==
  /\ lastOp.kind = "undoButtonWasPushed"
  /\ lastPushed = ceilingFanMedium
  /\ rebound = ceilingFanHigh
  /\ Read(onCommands, 0) = ceilingFanHigh
  /\ prevSpeed[ceilingFanMedium] = OFF
  /\ speed = OFF

\* C22 (SpecRemote): a push of the on or off button of a slot that holds a
\* NoCommand changes no device and makes that NoCommand the undoCommand; an
\* undoButtonWasPushed right after it calls undo() on the NoCommand alone,
\* writes no report and leaves every device and every prevSpeed as they were,
\* whatever real command was executed before.
C22_NoCommandOverwrite ==
  /\ (lastOp.kind \in Pushes /\ lastOp.cmd[1] = "NoCommand") =>
       /\ undoCommand = lastOp.cmd
       /\ pre = Devices(Heap)
       /\ reports = <<>>
  /\ (/\ lastOp.kind = "undoButtonWasPushed"
      /\ rt # None
      /\ lastPushed[1] = "NoCommand") =>
       /\ undoCommand = lastPushed
       /\ calls = << <<"RemoteLoaderWithUndo", lastPushed, "undo">> >>
       /\ reports = <<>>
       /\ Devices(Heap) = rt

\* on(0) ran ceilingFanMedium from OFF, then the on button of the unbound
\* slot 1 was pushed, and the undo right after it left the fan at MEDIUM
C22_Witness ==
  /\ lastOp.kind = "undoButtonWasPushed"
  /\ rt # None
  /\ lastPushed = NoCommand(2)
  /\ Read(onCommands, 0) = ceilingFanMedium
  /\ prevSpeed[ceilingFanMedium] = OFF
  /\ speed = MEDIUM

\* how often o occurs in the observer list
Occurrences(list, o) == Cardinality({i \in 1..Len(list) : list[i] = o})

\* C23 (SpecWeather): setMeasurements(t, h, p) stores t, h, p and calls
\* update(t, h, p) once per entry of the observer list, in list order;
\* removeObserver(o) of an observer that is in the list once takes it out of
\* the list (so no later update goes to it), and removeObserver(o) of an
\* observer that is not in the list leaves the list unchanged.
C23_Notification ==
  [][/\ weatherOp'.kind = "setMeasurements" =>
          /\ <<weatherData'.temperature, weatherData'.humidity,
               weatherData'.pressure>> = weatherOp'.m
          /\ updates' = [i \in 1..Len(weatherData.observers) |->
                           <<weatherData.observers[i]>> \o weatherOp'.m]
     /\ weatherOp'.kind = "removeObserver" =>
          /\ Occurrences(weatherData.observers, weatherOp'.o) = 1 =>
               Occurrences(weatherData'.observers, weatherOp'.o) = 0
          /\ Occurrences(weatherData.observers, weatherOp'.o) = 0 =>
               weatherData'.observers = weatherData.observers]_vars

SetMin(S) == CHOOSE x \in S : \A y \in S : x <= y

SetMax(S) == CHOOSE x \in S : \A y \in S : x >= y

\* C24 (SpecWeather): minTemperature <= currentTemperature <= maxTemperature;
\* minTemperature is the least and maxTemperature the greatest of 80 and the
\* temperatures update() received; previousTemperature is the value
\* currentTemperature had before the last update().
C24_AvgMaxMin ==
  /\ avgMaxMinDisplay.minTemperature <= avgMaxMinDisplay.currentTemperature
  /\ avgMaxMinDisplay.currentTemperature <= avgMaxMinDisplay.maxTemperature
  /\ avgMaxMinDisplay.minTemperature = SetMin({80} \cup temps)
  /\ avgMaxMinDisplay.maxTemperature = SetMax({80} \cup temps)
  /\ avgMaxMinDisplay.previousTemperature = beforeLast

\* the display received 82 and then 78, as at the end of WeatherStation.main
C24_Witness ==
  /\ weatherOp.kind = "setMeasurements"
  /\ Len(updates) >= 1
  /\ updates[Len(updates)] = <<"avgMaxMinDisplay", 78, 90, 292>>
  /\ avgMaxMinDisplay = [currentTemperature |-> 78, previousTemperature |-> 82,
                         minTemperature |-> 78, maxTemperature |-> 82]

\* C25 (SpecSingleton): the constructor of Singleton runs at most once, and
\* every getInstance() returns the object the first getInstance() returned.
C25_SingleInstance ==
  /\ constructed <= 1
  /\ gets >= 1 => (first # 0 /\ uniqueInstance = first /\ constructed = 1)
  /\ \A client \in Clients : refs[client] \in {0, first}

\* every client has called getInstance() and all hold the first call's object
C25_Witness ==
  /\ gets >= Cardinality(Clients) + 1
  /\ first # 0
  /\ \A client \in Clients : refs[client] = first

====
